---- MODULE Spec2Model ----
(***************************************************************************)
(* Model of the MME tagmaker service: the edge-learning job                *)
(* (app/jobs/edge_learning.py, specifications Spec and SpecRace) and the   *)
(* tier-rebalancing job (app/services/tiering.py over                      *)
(* app/services/database.py, specifications SpecTier and SpecDetermine).   *)
(*                                                                         *)
(* Numbers.  Edge weights, rewards and w_max are Python floats.  They are  *)
(* modelled as fixed-point integers in units of 1/10000 (w_max = 1.0 is    *)
(* 10000, r = 0.03 is 300) and eta as a percentage (0.05 is 5).  A float   *)
(* has finite precision and every arithmetic result is rounded to the      *)
(* nearest representable value; the model keeps that: the blended weight   *)
(* is rounded to the nearest unit, ties to even (RoundDiv).  The unit of   *)
(* the model plays the part of the double's unit in the last place: 9999   *)
(* is the largest weight below w_max (0.9999999999999999 in a double) and  *)
(* 1 the smallest weight above 0 (5e-324).                                 *)
(*                                                                         *)
(* Time is counted in hours.                                               *)
(***************************************************************************)
EXTENDS Integers, Sequences, FiniteSets, TLC

VARIABLES
    cfg,         \* EdgeLearningJob configuration (eta, r, d, max_edges_per_tag, window_hours)
    packEvents,  \* the pack_events collection, in insertion order
    tagEdges,    \* the tag_edges collection: org -> tag -> document
    seed,        \* the tag_edges collection as it was before any invocation
    inv,         \* per invocation of run(): its arguments, locals and position
    log,         \* history: one entry per edge document write
    failures,    \* number of storage errors raised so far
    mem,         \* the memories collection read and written by the tiering sweep
    sweep,       \* the tier-rebalancing job: its locals and position
    tlog,        \* history: one entry per tag handled by a sweep
    probe,       \* a pure function under check: its input and its result
    settings,    \* app.config.settings: the tagging-service switches
    queue,       \* the retry queue file /tmp/tagmaker_retry.jsonl, line by line
    replay,      \* replay_failed_deltas: its locals and position
    plog,        \* history: one entry per call of post_delta
    mw           \* SecurityMiddleware: its config, rate limiter and the request in dispatch

learnVars == <<cfg, packEvents, tagEdges, seed, inv, log, failures>>
tierVars == <<mem, sweep, tlog>>
retryVars == <<settings, queue, replay, plog>>
vars == <<cfg, packEvents, tagEdges, seed, inv, log, failures, mem, sweep, tlog, probe,
          settings, queue, replay, plog, mw>>

----------------------------------------------------------------------------
(* Bounds of the model *)

MaxEvents == 2      \* pack events in the collection
MaxFailures == 1    \* storage errors injected in one behaviour
Now == 100          \* datetime.now(), in hours

(* Program constants *)
WMax == 10000       \* MME_LEARN_WMAX default 1.0

Orgs == {"o1", "o2"}
Tags == {"python", "fastapi", "ml", "ds", "web"}
Invs == {1, 2}

Min(a, b) == IF a < b THEN a ELSE b
Max(a, b) == IF a > b THEN a ELSE b

----------------------------------------------------------------------------
(* Configurations: the defaults of __init__ and the test fixture's environment *)

Configs ==
    { [eta |-> 5,  r |-> 300, d |-> 100, m |-> 32, window |-> 24],
      [eta |-> 10, r |-> 500, d |-> 200, m |-> 3,  window |-> 24] }

----------------------------------------------------------------------------
(* Float arithmetic: round n/den to the nearest integer, ties to even *)

RoundDiv(n, den) ==
    LET q == n \div den
        r2 == 2 * (n % den)
    IN  IF r2 < den THEN q
        ELSE IF r2 > den THEN q + 1
        ELSE IF q % 2 = 0 THEN q ELSE q + 1

(* mutant: the upper bound of the clip is forgotten *)
ClipWeightNoUpper(weight) == IF weight < 0 THEN 0 ELSE weight

(* _clip_weight *)
ClipWeight(weight) == Max(0, Min(weight, WMax))

(* mutant: a plain EMA toward the reward itself *)
UpdateTowardReward(c, current_weight, accepted) ==
    LET reward == IF accepted THEN c.r ELSE 0 - c.d
    IN  ClipWeight(RoundDiv((100 - c.eta) * current_weight + c.eta * reward, 100))

(* mutant: the reward-shifted target is not clipped before the blend *)
UpdateNoTargetClip(c, current_weight, accepted) ==
    LET reward == IF accepted THEN c.r ELSE 0 - c.d
        new_weight == current_weight + reward
    IN  ClipWeight(RoundDiv((100 - c.eta) * current_weight + c.eta * new_weight, 100))

(* _update_edge_weight *)
UpdateEdgeWeight(c, current_weight, accepted) ==
    LET reward == IF accepted THEN c.r ELSE 0 - c.d
        new_weight == current_weight + reward
        clipped_weight == ClipWeight(new_weight)
        updated_weight ==
            RoundDiv((100 - c.eta) * current_weight + c.eta * clipped_weight, 100)
    IN  ClipWeight(updated_weight)

----------------------------------------------------------------------------
(* Neighbour maps: a Python dict {to: w}, kept as a sequence of [to, w]    *)
(* records in insertion order, one record per key.                         *)

HasKey(map, to) == \E k \in 1..Len(map) : map[k].to = to

(* dict.get(to, default) *)
GetWeight(map, to, default) ==
    IF HasKey(map, to)
    THEN map[CHOOSE k \in 1..Len(map) : map[k].to = to].w
    ELSE default

(* mutant: the assignment adds an entry, also for a key the map has *)
SetWeightAppend(map, to, w) == Append(map, [to |-> to, w |-> w])

(* mutant: the assignment leaves a map of the one updated key *)
SetWeightOnly(map, to, w) == <<[to |-> to, w |-> w]>>

(* dict[to] = w : an existing key keeps its position, a new key goes last *)
SetWeight(map, to, w) ==
    IF HasKey(map, to)
    THEN [k \in 1..Len(map) |-> IF map[k].to = to THEN [to |-> to, w |-> w] ELSE map[k]]
    ELSE Append(map, [to |-> to, w |-> w])

RECURSIVE EdgesToMap(_, _)
EdgesToMap(edges, map) ==
    IF edges = <<>> THEN map
    ELSE EdgesToMap(Tail(edges), SetWeight(map, Head(edges).to, Head(edges).w))

NoDoc == [present |-> FALSE, edges |-> <<>>]
Doc(edges) == [present |-> TRUE, edges |-> edges]

(* _get_current_edges *)
GetCurrentEdges(doc) ==
    IF ~doc.present THEN <<>> ELSE EdgesToMap(doc.edges, <<>>)

(* sorted(..., key=weight, reverse=True): stable, equal weights keep their order *)
RECURSIVE InsertDesc(_, _)
InsertDesc(sorted, e) ==
    IF sorted = <<>> THEN <<e>>
    ELSE IF Head(sorted).w >= e.w THEN <<Head(sorted)>> \o InsertDesc(Tail(sorted), e)
    ELSE <<e>> \o sorted

RECURSIVE SortDesc(_, _)
SortDesc(items, acc) ==
    IF items = <<>> THEN acc
    ELSE SortDesc(Tail(items), InsertDesc(acc, Head(items)))

(* mutant: the sorted list is not truncated *)
UpsertNoTruncate(c, edges) == SortDesc(edges, <<>>)

(* mutant: the slice keeps the tail of the sorted list *)
UpsertKeepTail(c, edges) ==
    LET sorted_edges == SortDesc(edges, <<>>)
        n == Len(sorted_edges)
    IN  SubSeq(sorted_edges, Max(1, n - c.m + 1), n)

(* _upsert_edges: the edge list written for the neighbour map `edges` *)
UpsertEdges(c, edges) ==
    LET sorted_edges == SortDesc(edges, <<>>)
    IN  SubSeq(sorted_edges, 1, Min(c.m, Len(sorted_edges)))

----------------------------------------------------------------------------
(* Events *)

(* An optional argument is <<>> for None and <<x>> for the value x.        *)
(* Python truthiness of an optional string                                 *)
Truthy(opt) == opt # <<>> /\ opt[1] # ""

(* mutant: the filter has no cutoff *)
RECURSIVE FilterEventsNoCutoff(_, _, _)
FilterEventsNoCutoff(events, org, cutoff) ==
    IF events = <<>> THEN <<>>
    ELSE LET e == Head(events)
             rest == FilterEventsNoCutoff(Tail(events), org, cutoff)
         IN  IF e.orgId = org THEN <<e>> \o rest ELSE rest

(* _get_recent_pack_events: the filter {'orgId': org, 'ts': {'$gte': cutoff}} *)
RECURSIVE FilterEvents(_, _, _)
FilterEvents(events, org, cutoff) ==
    IF events = <<>> THEN <<>>
    ELSE LET e == Head(events)
             rest == FilterEvents(Tail(events), org, cutoff)
         IN  IF e.orgId = org /\ e.ts >= cutoff THEN <<e>> \o rest ELSE rest

RecentPackEvents(c, events, org, hours) ==
    LET h == IF hours = <<>> THEN c.window ELSE hours[1]
        cutoff_time == Now - h
    IN  FilterEvents(events, org, cutoff_time)

(* _build_tag_pairs *)
RECURSIVE PairsFrom(_, _, _)
PairsFrom(tags, i, j) ==
    IF i > Len(tags) THEN <<>>
    ELSE IF j > Len(tags) THEN PairsFrom(tags, i + 1, i + 2)
    ELSE <<(<<tags[i], tags[j]>>)>> \o PairsFrom(tags, i, j + 1)

BuildTagPairs(tags) == PairsFrom(tags, 1, 2)

(* mutant: the guard and the inner range are both off by one *)
EventPairsSelf(tags) == IF Len(tags) < 1 THEN <<>> ELSE PairsFrom(tags, 1, 1)

(* run, lines 170-174: an event with fewer than two tags gives no pairs *)
EventPairs(tags) == IF Len(tags) < 2 THEN <<>> ELSE BuildTagPairs(tags)

(* pack_events.distinct('orgId') *)
DistinctOrgs(events) == {events[k].orgId : k \in 1..Len(events)}

Perms(S) ==
    {f \in [1..Cardinality(S) -> S] : \A a, b \in 1..Cardinality(S) : f[a] = f[b] => a = b}

----------------------------------------------------------------------------
(* Inputs: stores seeded before the run and pack events, after the         *)
(* fixtures of test_edge_learning_integration.py and conftest.py           *)

E(to, w) == [to |-> to, w |-> w]

EmptyStore == [t \in Tags |-> NoDoc]

SeedStores ==
    { \* test_ema_math_*, test_bidirectional_edges
      [EmptyStore EXCEPT !["python"] = Doc(<<E("fastapi", 5000)>>),
                         !["fastapi"] = Doc(<<E("python", 5000)>>)],
      \* test_weight_clipping: weights seeded outside [0, w_max]
      [EmptyStore EXCEPT !["python"] = Doc(<<E("fastapi", 20000)>>),
                         !["fastapi"] = Doc(<<E("python", 0 - 3000)>>)],
      \* test_top_m_pruning: more edges than max_edges_per_tag
      [EmptyStore EXCEPT !["python"] = Doc(<<E("fastapi", 8000), E("ml", 6000),
                                             E("ds", 4000), E("web", 2000)>>)],
      \* a full node without the event's neighbour; weights one representable
      \* step away from the clip bounds
      [EmptyStore EXCEPT !["python"] = Doc(<<E("ml", 8000), E("ds", 6000), E("web", 4000)>>),
                         !["fastapi"] = Doc(<<E("python", 9999)>>),
                         !["ml"] = Doc(<<E("python", 1)>>)] }

OtherOrgStore ==
    [EmptyStore EXCEPT !["python"] = Doc(<<E("fastapi", 5000)>>),
                       !["fastapi"] = Doc(<<E("python", 5000)>>)]

Ev(org, accepted, tags, ts) ==
    [orgId |-> org, accepted |-> accepted, tags |-> tags, ts |-> ts]

EventPool ==
    { Ev("o1", TRUE,  <<"python", "fastapi">>, Now),
      Ev("o1", FALSE, <<"python", "ml">>, Now),
      Ev("o1", TRUE,  <<"python">>, Now),
      Ev("o1", TRUE,  <<"python", "fastapi", "web">>, Now),
      Ev("o1", TRUE,  <<"python", "python">>, Now),
      Ev("o1", TRUE,  <<"fastapi", "python">>, Now - 18),
      Ev("o2", TRUE,  <<"fastapi", "python">>, Now) }

EventLists == UNION {[1..n -> EventPool] : n \in 0..MaxEvents}

----------------------------------------------------------------------------
(* One invocation of EdgeLearningJob.run *)

Idle ==
    [pc |-> "idle", argOrg |-> <<>>, argHours |-> <<>>, orgs |-> <<>>, oi |-> 0,
     events |-> <<>>, ei |-> 0, pairs |-> <<>>, pi |-> 0, dir |-> 0,
     cur |-> <<>>, curDoc |-> [present |-> FALSE, edges |-> <<>>], orgUpdated |-> 0, total |-> 0, updated |-> 0,
     total_pruned |-> 0, pruned |-> 0,
     visited |-> <<>>, failed |-> {}]

Called(org_id, hours) ==
    [Idle EXCEPT !.pc = "start", !.argOrg = org_id, !.argHours = hours]

(* the calls: run_edge_learning() and run_edge_learning_for_org(org_id, hours) *)
Calls ==
    { <<(<<>>), (<<>>)>>, <<(<<"o1">>), (<<12>>)>>, <<(<<"">>), (<<>>)>> }

(* the tier-rebalancing job before it runs, and no function under check *)
SweepIdle ==
    [pc |-> "idle", n |-> 0, connected |-> TRUE, page |-> 0, fetched |-> <<>>,
     tags |-> <<>>, ti |-> 0, processed |-> 0, rebalanced |-> 0, failures |-> 0]

ProbeIdle == [fn |-> "none", arg |-> 0, out |-> 0, applied |-> FALSE]

TierAtRest == mem = <<>> /\ sweep = SweepIdle /\ tlog = <<>>

ProbeAtRest == probe = ProbeIdle

(* replay_failed_deltas before it runs *)
ReplayIdle ==
    [pc |-> "idle", n |-> 0, pos |-> 0, failed_entries |-> <<>>, start |-> <<>>,
     lines |-> <<>>, written |-> <<>>, disturbed |-> FALSE, arrived |-> {}]

(* a request: its path, query string, user agent and content-length header *)
Req(path, query, agent, content_length) ==
    [path |-> path, query |-> query, agent |-> agent, content_length |-> content_length]

(* no request in dispatch *)
NoRequest == Req("", "", "", <<>>)

(* the endpoints requests are made to *)
Paths == {"/tags/extract", "/tags/../admin", "/tags/query", "/health"}

(* SecurityConfig.__init__, middleware.py lines 26-34: every switch is on *)
SecurityConfig ==
    [security_headers |-> TRUE, input_validation |-> TRUE,
     rate_limit_enabled |-> TRUE, threat_detection |-> TRUE]

(* SecurityMiddleware.__init__ and RateLimiter.__init__: no request seen   *)
(* yet, none in dispatch                                                   *)
MiddlewareIdle ==
    [config |-> SecurityConfig,
     requests |-> [p \in Paths |-> 0], blocked |-> [p \in Paths |-> "no"],
     pc |-> "idle", request |-> NoRequest, forwarded |-> FALSE, headers |-> FALSE,
     handled |-> <<>>, responses |-> <<>>]

MiddlewareAtRest == mw = MiddlewareIdle

(* the tagging service switched on and configured, nothing posted or queued *)
RetryAtRest ==
    /\ settings = [enable_tagging_service |-> TRUE, tagging_service_url |-> TRUE]
    /\ queue = <<>>
    /\ replay = ReplayIdle
    /\ plog = <<>>

Init ==
    /\ cfg \in Configs
    /\ packEvents \in EventLists
    /\ \E s \in SeedStores : seed = [o \in Orgs |-> IF o = "o1" THEN s ELSE OtherOrgStore]
    /\ tagEdges = seed
    /\ \E call \in Calls :
           inv = [i \in Invs |-> IF i = 1 THEN Called(call[1], call[2]) ELSE Idle]
    /\ log = <<>>
    /\ failures = 0
    /\ TierAtRest
    /\ ProbeAtRest
    /\ RetryAtRest
    /\ MiddlewareAtRest

(* a storage call may raise while the error budget lasts *)
MayFail == failures < MaxFailures

(* mutant: the except clause leaves the loop over the orgs *)
HandleOrgErrorBreak(s) ==
    [s EXCEPT !.failed = @ \cup {s.orgs[s.oi]}, !.oi = Len(s.orgs) + 1, !.pc = "org"]

(* mutant: the except clause adds the org's count so far to the total *)
HandleOrgErrorCounted(s) ==
    [s EXCEPT !.failed = @ \cup {s.orgs[s.oi]}, !.total = @ + s.orgUpdated,
              !.oi = @ + 1, !.pc = "org"]

(* run, lines 208-210: the per-org except clause *)
HandleOrgError(s) ==
    [s EXCEPT !.failed = @ \cup {s.orgs[s.oi]}, !.oi = @ + 1, !.pc = "org"]

(* run, lines 141-150 *)
Start(i) ==
    LET s == inv[i] IN
    /\ s.pc = "start"
    /\ \/ /\ Truthy(s.argOrg)
          /\ inv' = [inv EXCEPT ![i] = [s EXCEPT !.orgs = <<s.argOrg[1]>>, !.oi = 1,
                                                 !.pc = "org"]]
          /\ UNCHANGED failures
       \/ /\ ~Truthy(s.argOrg)
          /\ \E orgs \in Perms(DistinctOrgs(packEvents)) :
                 inv' = [inv EXCEPT ![i] = [s EXCEPT !.orgs = orgs, !.oi = 1, !.pc = "org"]]
          /\ UNCHANGED failures
       \/ /\ ~Truthy(s.argOrg)
          /\ MayFail
          /\ inv' = [inv EXCEPT ![i] = [s EXCEPT !.pc = "raised"]]
          /\ failures' = failures + 1
    /\ UNCHANGED <<cfg, packEvents, tagEdges, seed, log>>
    /\ UNCHANGED <<tierVars, probe, retryVars, mw>>

(* mutant: the summary counts the writes that truncated the edge list *)
SummaryPrunedCounted(s) ==
    Cardinality({k \in 1..Len(log) : Len(log[k].map) > Len(log[k].after)})

(* run, lines 150 and 217: 'pruned' is total_pruned, set to 0 at the start *)
(* and assigned nowhere else                                               *)
SummaryPruned(s) == s.total_pruned

(* run, line 206 *)
AddOrgTotal(total_updated, org_edges_updated) == total_updated + org_edges_updated

(* run, lines 152-159 and, when the loop is over, 212-219 *)
ForOrg(i) ==
    LET s == inv[i] IN
    /\ s.pc = "org"
    /\ \/ /\ s.oi > Len(s.orgs)
          /\ inv' = [inv EXCEPT ![i] = [s EXCEPT !.updated = s.total,
                                                 !.pruned = SummaryPruned(s),
                                                 !.pc = "done"]]
          /\ UNCHANGED failures
       \/ /\ s.oi <= Len(s.orgs)
          /\ LET org == s.orgs[s.oi]
                 events == RecentPackEvents(cfg, packEvents, org, s.argHours)
                 t == [s EXCEPT !.visited = Append(@, org)]
             IN  inv' = [inv EXCEPT ![i] =
                           IF events = <<>>
                           THEN [t EXCEPT !.oi = @ + 1]
                           ELSE [t EXCEPT !.events = events, !.ei = 1,
                                          !.orgUpdated = 0, !.pc = "event"]]
          /\ UNCHANGED failures
       \/ /\ s.oi <= Len(s.orgs)
          /\ MayFail
          /\ inv' = [inv EXCEPT ![i] =
                        HandleOrgError([s EXCEPT !.visited = Append(@, s.orgs[s.oi])])]
          /\ failures' = failures + 1
    /\ UNCHANGED <<cfg, packEvents, tagEdges, seed, log>>
    /\ UNCHANGED <<tierVars, probe, retryVars, mw>>

(* run, lines 166-174 and, when the events are over, 198-206 *)
NextEvent(i) ==
    LET s == inv[i] IN
    /\ s.pc = "event"
    /\ IF s.ei > Len(s.events)
       THEN inv' = [inv EXCEPT ![i] =
                      [s EXCEPT !.total = AddOrgTotal(s.total, s.orgUpdated),
                                !.oi = @ + 1, !.pc = "org"]]
       ELSE LET pairs == EventPairs(s.events[s.ei].tags)
            IN  inv' = [inv EXCEPT ![i] =
                          IF pairs = <<>>
                          THEN [s EXCEPT !.ei = @ + 1]
                          ELSE [s EXCEPT !.pairs = pairs, !.pi = 1, !.dir = 1,
                                         !.pc = "read"]]
    /\ UNCHANGED <<cfg, packEvents, tagEdges, seed, log, failures>>
    /\ UNCHANGED <<tierVars, probe, retryVars, mw>>

(* mutant: the second direction keeps the first direction's destination *)
DstTagSame(s) == s.pairs[s.pi][2]

(* source and destination tag of the direction being processed *)
SrcTag(s) == IF s.dir = 1 THEN s.pairs[s.pi][1] ELSE s.pairs[s.pi][2]
DstTag(s) == IF s.dir = 1 THEN s.pairs[s.pi][2] ELSE s.pairs[s.pi][1]

(* run, lines 179 and 189: read the source tag's neighbour map *)
ReadEdges(i) ==
    LET s == inv[i]
        org == s.orgs[s.oi]
    IN
    /\ s.pc = "read"
    /\ \/ /\ inv' = [inv EXCEPT ![i] =
                       [s EXCEPT !.cur = GetCurrentEdges(tagEdges[org][SrcTag(s)]),
                                 !.curDoc = tagEdges[org][SrcTag(s)],
                                 !.pc = "write"]]
          /\ UNCHANGED failures
       \/ /\ MayFail
          /\ inv' = [inv EXCEPT ![i] = HandleOrgError(s)]
          /\ failures' = failures + 1
    /\ UNCHANGED <<cfg, packEvents, tagEdges, seed, log>>
    /\ UNCHANGED <<tierVars, probe, retryVars, mw>>

(* mutant: one count per pair instead of one per direction *)
AdvanceCountPair(s) ==
    IF s.dir = 1 THEN [s EXCEPT !.dir = 2, !.pc = "read"]
    ELSE LET t == [s EXCEPT !.orgUpdated = @ + 1] IN
         IF s.pi < Len(s.pairs) THEN [t EXCEPT !.pi = @ + 1, !.dir = 1, !.pc = "read"]
         ELSE [t EXCEPT !.ei = @ + 1, !.pc = "event"]

(* mutant: a step for a new neighbour of a full node is not counted *)
AdvanceCountStored(s) ==
    LET t == IF Len(s.cur) >= cfg.m /\ ~HasKey(s.cur, DstTag(s)) THEN s
             ELSE [s EXCEPT !.orgUpdated = @ + 1] IN
    IF s.dir = 1 THEN [t EXCEPT !.dir = 2, !.pc = "read"]
    ELSE IF s.pi < Len(s.pairs) THEN [t EXCEPT !.pi = @ + 1, !.dir = 1, !.pc = "read"]
    ELSE [t EXCEPT !.ei = @ + 1, !.pc = "event"]

(* run, lines 186 and 196, then on to the next direction, pair or event *)
Advance(s) ==
    LET t == [s EXCEPT !.orgUpdated = @ + 1] IN
    IF s.dir = 1 THEN [t EXCEPT !.dir = 2, !.pc = "read"]
    ELSE IF s.pi < Len(s.pairs) THEN [t EXCEPT !.pi = @ + 1, !.dir = 1, !.pc = "read"]
    ELSE [t EXCEPT !.ei = @ + 1, !.pc = "event"]

(* mutant: the neighbour map is read again from the stored document at the *)
(* moment of the write                                                      *)
WriteBasisFresh(s, stored) == GetCurrentEdges(stored)

(* mutant: a replayed event is recognised and its update is recomputed     *)
(* from the document as it was before the first pass                       *)
WriteBasisSeed(s, stored) == GetCurrentEdges(seed[s.orgs[s.oi]][SrcTag(s)])

(* run, lines 179-185: the neighbour map a write is computed from is the   *)
(* local current_edges filled by the read; the stored document is not      *)
(* looked at again                                                          *)
WriteBasis(s, stored) == s.cur

(* run, lines 180-186 and 190-196: new weight, rewrite of the document *)
WriteEdges(i) ==
    LET s == inv[i]
        org == s.orgs[s.oi]
        src == SrcTag(s)
        dst == DstTag(s)
        accepted == s.events[s.ei].accepted
        basis == WriteBasis(s, tagEdges[org][src])
        current_weight == GetWeight(basis, dst, 0)
        new_weight == UpdateEdgeWeight(cfg, current_weight, accepted)
        current_edges == SetWeight(basis, dst, new_weight)
        edge_list == UpsertEdges(cfg, current_edges)
    IN
    /\ s.pc = "write"
    /\ \/ /\ tagEdges' = [tagEdges EXCEPT ![org][src] = Doc(edge_list)]
          /\ inv' = [inv EXCEPT ![i] = Advance(s)]
          /\ log' = Append(log, [inv |-> i, org |-> org, event |-> s.events[s.ei],
                                 pair |-> s.pairs[s.pi],
                                 src |-> src, dst |-> dst, dir |-> s.dir,
                                 prior |-> current_weight, new |-> new_weight,
                                 read |-> s.curDoc,
                                 before |-> tagEdges[org][src],
                                 map |-> current_edges, after |-> edge_list])
          /\ UNCHANGED failures
       \/ /\ MayFail
          /\ inv' = [inv EXCEPT ![i] = HandleOrgError(s)]
          /\ failures' = failures + 1
          /\ UNCHANGED <<tagEdges, log>>
    /\ UNCHANGED <<cfg, packEvents, seed>>
    /\ UNCHANGED <<tierVars, probe, retryVars, mw>>

Next ==
    \E i \in Invs :
        \/ Start(i)
        \/ ForOrg(i)
        \/ NextEvent(i)
        \/ ReadEdges(i)
        \/ WriteEdges(i)

Spec == Init /\ [][Next]_vars

----------------------------------------------------------------------------
(* One pass over all orgs, over events of org o1 that share the tag python *)
(* and every seeded store: the writes to one document follow one another.  *)

FramePool ==
    { Ev("o1", TRUE,  <<"python", "fastapi">>, Now),
      Ev("o1", FALSE, <<"python", "ml">>, Now),
      Ev("o1", TRUE,  <<"python", "fastapi", "web">>, Now) }

FrameEventLists == UNION {[1..n -> FramePool] : n \in 1..MaxEvents}

InitFrame ==
    /\ cfg \in Configs
    /\ packEvents \in FrameEventLists
    /\ \E s \in SeedStores : seed = [o \in Orgs |-> IF o = "o1" THEN s ELSE OtherOrgStore]
    /\ tagEdges = seed
    /\ inv = [i \in Invs |-> IF i = 1 THEN Called(<<>>, <<>>) ELSE Idle]
    /\ log = <<>>
    /\ failures = 0
    /\ TierAtRest
    /\ ProbeAtRest
    /\ RetryAtRest
    /\ MiddlewareAtRest

SpecFrame == InitFrame /\ [][Next]_vars

----------------------------------------------------------------------------
(* Two invocations at once.  main.py lines 38-42 run the learning job on a *)
(* BackgroundScheduler thread every 10 minutes; the admin route            *)
(* (edge_admin.py lines 25-55) calls run_edge_learning_for_org on a request *)
(* thread.  Nothing serialises the two: each step of either invocation may *)
(* come between the read and the write of the other.                       *)

MaxRaceEvents == 1   \* pack events in the collection while two invocations run

RacePool ==
    { Ev("o1", TRUE,  <<"python", "fastapi">>, Now),
      Ev("o1", FALSE, <<"python", "ml">>, Now) }

RaceEventLists == UNION {[1..n -> RacePool] : n \in 1..MaxRaceEvents}

RaceStore ==
    [t \in Tags |->
        IF t = "python" THEN Doc(<<E("fastapi", 5000), E("ml", 3000)>>)
        ELSE IF t = "fastapi" THEN Doc(<<E("python", 5000)>>)
        ELSE NoDoc]

(* the same edges one rounding step away from the clip bounds *)
RaceStoreNearBound ==
    [t \in Tags |->
        IF t = "python" THEN Doc(<<E("fastapi", 9995), E("ml", 3)>>)
        ELSE IF t = "fastapi" THEN Doc(<<E("python", 9995)>>)
        ELSE IF t = "ml" THEN Doc(<<E("python", 3)>>)
        ELSE NoDoc]

(* a node that is full under max_edges_per_tag = 3, without the event's    *)
(* neighbour fastapi, which displaces the lightest neighbour               *)
RaceStoreFull ==
    [t \in Tags |->
        IF t = "python" THEN Doc(<<E("ds", 8000), E("web", 6000), E("ml", 10)>>)
        ELSE IF t = "fastapi" THEN Doc(<<E("python", 5000)>>)
        ELSE NoDoc]

RaceStores == {RaceStore, RaceStoreNearBound, RaceStoreFull}

InitRace ==
    /\ cfg \in Configs
    /\ packEvents \in RaceEventLists
    /\ \E s \in RaceStores : seed = [o \in Orgs |-> IF o = "o1" THEN s ELSE EmptyStore]
    /\ tagEdges = seed
    /\ inv = [i \in Invs |-> IF i = 1 THEN Called(<<>>, <<>>) ELSE Called(<<"o1">>, <<>>)]
    /\ log = <<>>
    /\ failures = 0
    /\ TierAtRest
    /\ ProbeAtRest
    /\ RetryAtRest
    /\ MiddlewareAtRest

SpecRace == InitRace /\ [][Next]_vars

----------------------------------------------------------------------------
(* The tier-rebalancing job (app/services/tiering.py) over the memories    *)
(* collection (app/services/database.py).  Dates are counted in days and   *)
(* a hotness score in thousandths (round(hotness, 3) keeps three places).  *)

MaxSweeps == 2     \* runs of rebalance_all_tags in one behaviour
PageLimit == 2     \* limit of one page (100 in tiering.py line 120), scaled down
Today == 10        \* datetime.utcnow(), in days

(* the learner left alone while the tiering job runs *)
LearnerAtRest ==
    /\ cfg = CHOOSE c \in Configs : c.m = 32
    /\ packEvents = <<>>
    /\ seed = [o \in Orgs |-> EmptyStore]
    /\ tagEdges = seed
    /\ inv = [i \in Invs |-> Idle]
    /\ log = <<>>
    /\ failures = 0

(* a memory record: its tag list, its createdAt (<<>> when absent) and     *)
(* meta.tier (<<>> when absent), meta.rebalanceCount                       *)
Rec(tags, createdAt, tier) ==
    [tags |-> tags, createdAt |-> createdAt, tier |-> tier, rebalanceCount |-> 0]

MemStores ==
    { (* one warm tag whose stored tier is a stale 1 *)
      <<Rec(<<"python">>, <<Today>>, <<1>>)>>,
      (* one warm tag whose stored tier is a stale 3, one with no tier *)
      <<Rec(<<"python">>, <<Today>>, <<3>>), Rec(<<"ml">>, <<Today>>, <<>>)>>,
      (* a hot tag and a cold one *)
      <<Rec(<<"python">>, <<Today>>, <<>>), Rec(<<"python">>, <<Today>>, <<>>),
        Rec(<<"python">>, <<Today>>, <<>>), Rec(<<"python">>, <<Today>>, <<>>),
        Rec(<<"fastapi">>, <<Today - 1>>, <<2>>)>>,
      (* a hot tag and a cold one that share a record *)
      <<Rec(<<"python", "fastapi">>, <<Today - 1>>, <<2>>),
        Rec(<<"python">>, <<Today>>, <<2>>), Rec(<<"python">>, <<Today>>, <<2>>),
        Rec(<<"python">>, <<Today>>, <<2>>), Rec(<<"python">>, <<Today>>, <<2>>)>>,
      (* three tags, more than a page; one record without createdAt *)
      <<Rec(<<"python">>, <<Today>>, <<2>>), Rec(<<"fastapi">>, <<Today - 1>>, <<2>>),
        Rec(<<"ml">>, <<Today - 2>>, <<3>>), Rec(<<"ds">>, <<>>, <<1>>)>>,
      (* three tags last used on the same day, more than a page *)
      <<Rec(<<"python">>, <<Today>>, <<>>), Rec(<<"fastapi">>, <<Today>>, <<1>>),
        Rec(<<"ml", "python">>, <<Today>>, <<3>>)>>,
      (* a record dated a day ahead of the job's clock, then two cold tags *)
      <<Rec(<<"python">>, <<Today + 1>>, <<2>>), Rec(<<"fastapi">>, <<Today - 1>>, <<2>>),
        Rec(<<"ml">>, <<Today - 2>>, <<2>>)>> }

(* --- DatabaseService.get_tags_for_rebalancing: the aggregation --------- *)

(* $unwind: one (record, position) per tag of every record *)
Unwound(m) == UNION {{<<k, j>> : j \in 1..Len(m[k].tags)} : k \in 1..Len(m)}

TagsOf(m) == {m[p[1]].tags[p[2]] : p \in Unwound(m)}

(* $sum 1 per unwound element *)
UseCount(m, tag) == Cardinality({p \in Unwound(m) : m[p[1]].tags[p[2]] = tag})

(* the createdAt values a $min / $max sees: absent ones are ignored *)
DatesOf(m, tag) ==
    {m[p[1]].createdAt[1] : p \in {q \in Unwound(m) : /\ m[q[1]].tags[q[2]] = tag
                                                       /\ m[q[1]].createdAt # <<>>}}

MinDate(m, tag) ==
    IF DatesOf(m, tag) = {} THEN <<>>
    ELSE <<CHOOSE d \in DatesOf(m, tag) : \A e \in DatesOf(m, tag) : d <= e>>

MaxDate(m, tag) ==
    IF DatesOf(m, tag) = {} THEN <<>>
    ELSE <<CHOOSE d \in DatesOf(m, tag) : \A e \in DatesOf(m, tag) : d >= e>>

(* $group and $addFields, lines 251-286: meta.tier is the literal 2 and    *)
(* lastPromotedAt the literal None, whatever the records hold              *)
TagData(m, tag) ==
    [tag |-> tag,
     metrics |-> [useCount |-> UseCount(m, tag), createdAt |-> MinDate(m, tag),
                  lastUsedAt |-> MaxDate(m, tag), lastPromotedAt |-> <<>>],
     meta |-> [tier |-> <<2>>]]

(* $sort {metrics.lastUsedAt: -1}: a missing date sorts last; the order of *)
(* tags with equal dates is not fixed and may differ from one execution of *)
(* the pipeline to the next                                                *)
SortKey(m, tag) == IF MaxDate(m, tag) = <<>> THEN 0 - 1 ELSE MaxDate(m, tag)[1]

SortedTags(m) ==
    {f \in Perms(TagsOf(m)) :
        \A a, b \in 1..Len(f) : a < b => SortKey(m, f[a]) >= SortKey(m, f[b])}

(* $skip page * limit, $limit limit *)
PageOf(list, page, limit) ==
    SubSeq(list, page * limit + 1, Min(Len(list), (page + 1) * limit))

(* --- tiering.py ---------------------------------------------------------- *)

(* math.log(n) in units of 1/100000, n = 1..20 *)
LnE5(n) ==
    <<0, 69315, 109861, 138629, 160944, 179176, 194591, 207944, 219722, 230259,
      239790, 248491, 256495, 263906, 270805, 277259, 283321, 289037, 294444,
      299573>>[n]

(* compute_hotness_score raises: math.log of a number <= 0, or a division  *)
(* by zero (age_penalty 0.0 or days_since_use + 1 = 0)                     *)
HotnessRaises(created_at, last_used_at) ==
    \/ (Today - created_at) + 2 <= 1
    \/ (Today - last_used_at) + 1 = 0

(* compute_hotness_score, lines 28-32: the promotion boost, kept doubled   *)
(* (2 for 1.0, 3 for 1.5)                                                  *)
PromotionBoost(last_promoted_at) ==
    IF last_promoted_at # <<>> /\ Today - last_promoted_at[1] < 7 THEN 3 ELSE 2

(* mutant: the age penalty grows with the age itself, not its logarithm *)
ComputeHotnessLinearAge(use_count, created_at, last_used_at, last_promoted_at) ==
    LET age_days == (Today - created_at) + 1
        days_since_use == Today - last_used_at
    IN  RoundDiv(use_count * PromotionBoost(last_promoted_at) * 500,
                 (days_since_use + 1) * (age_days + 1))

(* compute_hotness_score, in thousandths: round(hotness, 3) of             *)
(* use_count * recency_factor * promotion_boost / age_penalty              *)
ComputeHotnessScore(use_count, created_at, last_used_at, last_promoted_at) ==
    LET age_days == (Today - created_at) + 1
        age_penalty == LnE5(age_days + 1)
        days_since_use == Today - last_used_at
        promotion_boost == PromotionBoost(last_promoted_at)
    IN  RoundDiv(use_count * promotion_boost * 50000000,
                 (days_since_use + 1) * age_penalty)

(* mutant: the band bounds are exclusive *)
DetermineTierExclusive(hotness_score) ==
    IF hotness_score > 5000 THEN 1
    ELSE IF hotness_score > 1000 THEN 2
    ELSE 3

(* determine_tier *)
DetermineTier(hotness_score) ==
    IF hotness_score >= 5000 THEN 1
    ELSE IF hotness_score >= 1000 THEN 2
    ELSE 3

(* safe_get_int of an int or None *)
SafeGetInt(value, default) == IF value = <<>> THEN default ELSE value[1]

HasTag(rec, tag) == \E j \in 1..Len(rec.tags) : rec.tags[j] = tag

(* mutant: update_one, only the first record that carries the tag *)
UpdateTagTierOne(m, tag, new_tier) ==
    [k \in 1..Len(m) |->
        IF HasTag(m[k], tag) /\ ~\E j \in 1..(k - 1) : HasTag(m[j], tag)
        THEN [m[k] EXCEPT !.tier = <<new_tier>>, !.rebalanceCount = @ + 1]
        ELSE m[k]]

(* DatabaseService.update_tag_tier: update_many({"tags": tag}, $set meta.tier, *)
(* $inc meta.rebalanceCount)                                               *)
UpdateTagTier(m, tag, new_tier) ==
    [k \in 1..Len(m) |->
        IF HasTag(m[k], tag)
        THEN [m[k] EXCEPT !.tier = <<new_tier>>, !.rebalanceCount = @ + 1]
        ELSE m[k]]

InitTier ==
    /\ LearnerAtRest
    /\ mem \in MemStores
    /\ sweep = SweepIdle
    /\ tlog = <<>>
    /\ ProbeAtRest
    /\ RetryAtRest
    /\ MiddlewareAtRest

(* a storage call of the tiering job may fail while its error budget lasts *)
SweepMayFail == sweep.failures < MaxFailures

(* mutant: the run goes on without the connection check *)
RunsSweepAnyway(connected) == TRUE

(* rebalance_all_tags, lines 115-117: the run goes on only when            *)
(* db_service.is_connected() answers True                                   *)
RunsSweep(connected) == connected

(* rebalance_all_tags, lines 112-122: the scheduler starts a run; the      *)
(* connection check may find the store unreachable                         *)
SweepStart ==
    /\ sweep.pc = "idle"
    /\ sweep.n < MaxSweeps
    /\ \E connected \in {TRUE} \cup {c \in {FALSE} : SweepMayFail} :
          sweep' = [SweepIdle EXCEPT !.n = sweep.n + 1, !.connected = connected,
                                    !.pc = IF RunsSweep(connected) THEN "fetch"
                                           ELSE "idle",
                                    !.failures = IF connected THEN sweep.failures
                                                 ELSE sweep.failures + 1]
    /\ UNCHANGED <<mem, tlog>>
    /\ UNCHANGED <<learnVars, probe, retryVars, mw>>

(* mutant: a record that raises ends the page *)
AfterTagLeavePage(s, raised) ==
    IF s.ti < Len(s.tags) /\ ~raised
    THEN [s EXCEPT !.ti = @ + 1]
    ELSE [s EXCEPT !.page = @ + 1, !.pc = "fetch"]

(* lines 130, 176-178: on to the next record of the page, whatever became  *)
(* of this one, and to the next page after the last record                 *)
AfterTag(s, raised) ==
    IF s.ti < Len(s.tags)
    THEN [s EXCEPT !.ti = @ + 1]
    ELSE [s EXCEPT !.page = @ + 1, !.pc = "fetch"]

(* mutant: a page that could not be fetched is passed over and the sweep   *)
(* goes on with the next one                                               *)
FetchFailedNextPage(s) ==
    [s EXCEPT !.page = @ + 1, !.pc = "fetch", !.tags = <<>>, !.ti = 0]

(* lines 126-128: the fetch that failed hands back [] (database.py,        *)
(* _execute_operation returns None on an error and get_tags_for_rebalancing *)
(* turns it into []), 'if not tags: break' then leaves the loop            *)
FetchFailed(s) ==
    [s EXCEPT !.pc = "idle", !.tags = <<>>, !.ti = 0]

(* lines 126-128 and 178: one page of the aggregation; an empty page ends  *)
(* the run, and so does a page that could not be fetched                   *)
(* (get_tags_for_rebalancing returns [] on a storage error)                *)
FetchPage ==
    /\ sweep.pc = "fetch"
    /\ \/ /\ \E order \in SortedTags(mem) :
                LET tags == PageOf([k \in 1..Len(order) |-> TagData(mem, order[k])],
                                   sweep.page, PageLimit)
                    s == [sweep EXCEPT !.fetched =
                             Append(@, [page |-> sweep.page,
                                        names |-> [k \in 1..Len(tags) |-> tags[k].tag],
                                        failed |-> FALSE])]
                IN  sweep' = IF tags = <<>>
                             THEN [s EXCEPT !.pc = "idle", !.tags = <<>>, !.ti = 0]
                             ELSE [s EXCEPT !.pc = "tag", !.tags = tags, !.ti = 1]
       \/ /\ SweepMayFail
          /\ sweep' = [FetchFailed(sweep) EXCEPT
                                    !.failures = @ + 1,
                                    !.fetched = Append(@, [page |-> sweep.page,
                                                           names |-> <<>>,
                                                           failed |-> TRUE])]
    /\ UNCHANGED <<mem, tlog>>
    /\ UNCHANGED <<learnVars, probe, retryVars, mw>>

(* lines 130-176: one tag of the page; the update, when one is issued, may *)
(* fail in the store (update_tag_tier then returns False)                  *)
HandleTag ==
    LET tag_data == sweep.tags[sweep.ti]
        tag_name == tag_data.tag
        created_at == tag_data.metrics.createdAt
        last_used_at == tag_data.metrics.lastUsedAt
        use_count == SafeGetInt(<<tag_data.metrics.useCount>>, 1)
        skipped == created_at = <<>> \/ last_used_at = <<>>
        raised == ~skipped /\ HotnessRaises(created_at[1], last_used_at[1])
        hotness == ComputeHotnessScore(use_count, created_at[1], last_used_at[1],
                                       tag_data.metrics.lastPromotedAt)
        new_tier == DetermineTier(hotness)
        current_tier == SafeGetInt(tag_data.meta.tier, 2)
        issued == ~skipped /\ ~raised /\ new_tier # current_tier
    IN
    /\ sweep.pc = "tag"
    /\ \E success \in {ok \in BOOLEAN : (ok => issued) /\ (~ok /\ issued => SweepMayFail)} :
          LET after == IF success THEN UpdateTagTier(mem, tag_name, new_tier) ELSE mem
          IN
          /\ mem' = after
          /\ sweep' = [AfterTag(sweep, raised) EXCEPT
                           !.processed = IF skipped \/ raised THEN @ ELSE @ + 1,
                           !.rebalanced = IF success THEN @ + 1 ELSE @,
                           !.failures = IF issued /\ ~success THEN @ + 1 ELSE @]
          /\ tlog' = Append(tlog,
                       [sweep |-> sweep.n, page |-> sweep.page, at |-> sweep.ti,
                        tag |-> tag_name, skipped |-> skipped,
                        raised |-> raised,
                        hotness |-> IF skipped \/ raised THEN 0 ELSE hotness,
                        new_tier |-> IF skipped \/ raised THEN 0 ELSE new_tier,
                        current_tier |-> current_tier, issued |-> issued,
                        success |-> success,
                        before |-> mem, after |-> after])
    /\ UNCHANGED <<learnVars, probe, retryVars, mw>>

TierNext ==
    \/ SweepStart
    \/ FetchPage
    \/ HandleTag

SpecTier == InitTier /\ [][TierNext]_vars

----------------------------------------------------------------------------
(* Both scheduled jobs of main.py lines 38-42 in one process: a learning   *)
(* invocation and the runs of the tiering job, each with its own storage   *)
(* errors.                                                                 *)

JobStore ==
    <<Rec(<<"python">>, <<Today>>, <<2>>), Rec(<<"fastapi">>, <<Today - 1>>, <<2>>)>>

InitJobs ==
    /\ cfg = CHOOSE c \in Configs : c.m = 32
    /\ packEvents \in RaceEventLists
    /\ seed = [o \in Orgs |-> IF o = "o1" THEN RaceStore ELSE EmptyStore]
    /\ tagEdges = seed
    /\ \E call \in Calls :
           inv = [i \in Invs |-> IF i = 1 THEN Called(call[1], call[2]) ELSE Idle]
    /\ log = <<>>
    /\ failures = 0
    /\ mem = JobStore
    /\ sweep = SweepIdle
    /\ tlog = <<>>
    /\ ProbeAtRest
    /\ RetryAtRest
    /\ MiddlewareAtRest

NextJobs == Next \/ TierNext

SpecJobs == InitJobs /\ [][NextJobs]_vars

----------------------------------------------------------------------------
(* determine_tier called on its own, on every score of a range *)

MaxHotness == 6000   \* largest hotness score tried, in thousandths

InitDetermine ==
    /\ LearnerAtRest
    /\ TierAtRest
    /\ RetryAtRest
    /\ MiddlewareAtRest
    /\ \E h \in (0 - MaxHotness)..MaxHotness :
          probe = [fn |-> "determine_tier", arg |-> h, out |-> 0, applied |-> FALSE]

ApplyDetermineTier ==
    /\ probe.fn = "determine_tier"
    /\ ~probe.applied
    /\ probe' = [probe EXCEPT !.out = DetermineTier(probe.arg), !.applied = TRUE]
    /\ UNCHANGED <<learnVars, tierVars, retryVars, mw>>

NextDetermine == ApplyDetermineTier

SpecDetermine == InitDetermine /\ [][NextDetermine]_vars

----------------------------------------------------------------------------
(* compute_hotness_score called on its own, on the metrics of a range *)

MaxUse == 6       \* largest use count tried
PromoSpan == 8    \* lastPromotedAt is tried from this many days back to a day ahead

InitHotness ==
    /\ LearnerAtRest
    /\ TierAtRest
    /\ RetryAtRest
    /\ MiddlewareAtRest
    /\ \E use_count \in 1..MaxUse, created_at, last_used_at \in 0..(Today + 1),
          last_promoted_at \in {<<>>} \cup {<<d>> : d \in (Today - PromoSpan)..(Today + 1)} :
          probe = [fn |-> "compute_hotness_score",
                   arg |-> [use_count |-> use_count, created_at |-> created_at,
                            last_used_at |-> last_used_at,
                            last_promoted_at |-> last_promoted_at],
                   out |-> [raised |-> FALSE, boost |-> 0, score |-> 0],
                   applied |-> FALSE]

ApplyHotness ==
    /\ probe.fn = "compute_hotness_score"
    /\ ~probe.applied
    /\ probe' =
          [probe EXCEPT
              !.out = IF HotnessRaises(probe.arg.created_at, probe.arg.last_used_at)
                      THEN [raised |-> TRUE, boost |-> 0, score |-> 0]
                      ELSE [raised |-> FALSE,
                            boost |-> PromotionBoost(probe.arg.last_promoted_at),
                            score |-> ComputeHotnessScore(probe.arg.use_count,
                                                          probe.arg.created_at,
                                                          probe.arg.last_used_at,
                                                          probe.arg.last_promoted_at)],
              !.applied = TRUE]
    /\ UNCHANGED <<learnVars, tierVars, retryVars, mw>>

NextHotness == ApplyHotness

SpecHotness == InitHotness /\ [][NextHotness]_vars

----------------------------------------------------------------------------
(* Posting deltas to the tagging service and the retry queue               *)
(* (app/services/client.py).  generate_and_save (app/router.py) posts from *)
(* the request threads, replay_failed_deltas runs on the scheduler thread  *)
(* every minute (main.py line 40); nothing serialises the two.             *)

MaxPosts == 3      \* calls of post_delta in one behaviour
MaxReplays == 2    \* runs of replay_failed_deltas in one behaviour
MaxRetries == 5    \* client.py line 114

Deltas == {"d1", "d2"}

(* what becomes of requests.post: a 2xx response, another response, or one *)
(* of the exceptions of lines 52-63                                        *)
Outcomes == {"ok", "http_error", "timeout", "connection_error", "unexpected_error"}

(* _queue_failed_delta, lines 70-76: the queue entry of a failed delta *)
QueueEntry(delta, error_type) ==
    [delta |-> delta, error_type |-> error_type, retry_count |-> 0]

(* post_delta, lines 15-21: the delta is sent only with the service        *)
(* enabled and its URL configured                                          *)
Sends(s) == s.enable_tagging_service /\ s.tagging_service_url

(* post_delta: its return value and the queue file after it.  Lines 44-50  *)
(* return on a response without touching the queue; lines 52-63 queue the  *)
(* delta on an exception.                                                  *)
PostDelta(s, q, delta, outcome) ==
    IF ~Sends(s) THEN [ok |-> TRUE, sent |-> FALSE, queue |-> q]
    ELSE IF outcome = "ok" THEN [ok |-> TRUE, sent |-> TRUE, queue |-> q]
    ELSE IF outcome = "http_error" THEN [ok |-> FALSE, sent |-> TRUE, queue |-> q]
    ELSE [ok |-> FALSE, sent |-> TRUE, queue |-> Append(q, QueueEntry(delta, outcome))]

(* the outcomes requests.post can have, none when nothing is sent *)
OutcomesFor(s) == IF Sends(s) THEN Outcomes ELSE {"none"}

(* a queue entry that has failed k replays answered by a non-2xx response *)
Retried(delta, k) == [QueueEntry(delta, "timeout") EXCEPT !.retry_count = k]

(* queue files left by earlier requests and replays *)
Queues ==
    { <<>>,
      <<QueueEntry("d1", "timeout")>>,
      <<Retried("d1", 4)>>,
      <<QueueEntry("d1", "connection_error"), Retried("d2", 4)>> }

InitRetry ==
    /\ LearnerAtRest
    /\ TierAtRest
    /\ ProbeAtRest
    /\ MiddlewareAtRest
    /\ settings \in { [enable_tagging_service |-> TRUE, tagging_service_url |-> TRUE],
                      [enable_tagging_service |-> TRUE, tagging_service_url |-> FALSE],
                      [enable_tagging_service |-> FALSE, tagging_service_url |-> TRUE] }
    /\ queue \in Queues
    /\ replay = ReplayIdle
    /\ plog = <<>>

(* router.py generate_and_save, lines 294-306: a request posts its delta; *)
(* with the service disabled it returns before post_delta                  *)
GenerateAndSave ==
    /\ Len(plog) < MaxPosts
    /\ settings.enable_tagging_service
    /\ \E delta \in Deltas, outcome \in OutcomesFor(settings) :
          LET res == PostDelta(settings, queue, delta, outcome) IN
          /\ queue' = res.queue
          /\ plog' = Append(plog, [via |-> "request", delta |-> delta,
                                   outcome |-> outcome, ok |-> res.ok,
                                   sent |-> res.sent,
                                   before |-> queue, after |-> res.queue])
          /\ replay' = [replay EXCEPT
                           !.disturbed = @ \/ replay.pc # "idle",
                           !.arrived = IF replay.pc # "idle" /\ res.queue # queue
                                       THEN @ \cup {delta} ELSE @]
    /\ UNCHANGED settings
    /\ UNCHANGED <<learnVars, tierVars, probe, mw>>

(* replay_failed_deltas, lines 90-99: the scheduler starts a run and the   *)
(* queue file is opened (a missing file is an empty one here)              *)
ReplayStart ==
    /\ replay.pc = "idle"
    /\ replay.n < MaxReplays
    /\ replay' = [ReplayIdle EXCEPT !.pc = "read", !.n = replay.n + 1, !.pos = 1,
                                    !.start = queue]
    /\ UNCHANGED <<settings, queue, plog>>
    /\ UNCHANGED <<learnVars, tierVars, probe, mw>>

(* lines 100-117: the next line of the open file, posted again.  The file  *)
(* is read as it is at that moment: a line that post_delta appended while  *)
(* the loop runs is read by the same loop.                                 *)
ReplayLine ==
    /\ replay.pc = "read"
    /\ replay.pos <= Len(queue)
    /\ Len(plog) < MaxPosts
    /\ \E outcome \in OutcomesFor(settings) :
          LET entry == queue[replay.pos]
              res == PostDelta(settings, queue, entry.delta, outcome)
              retry_count == entry.retry_count + 1
          IN
          /\ queue' = res.queue
          /\ replay' = [replay EXCEPT
                           !.pos = @ + 1,
                           !.failed_entries =
                               IF ~res.ok /\ retry_count < MaxRetries
                               THEN Append(@, [entry EXCEPT !.retry_count = retry_count])
                               ELSE @,
                           !.lines = Append(@, [entry |-> entry, ok |-> res.ok])]
          /\ plog' = Append(plog, [via |-> "replay", delta |-> entry.delta,
                                   outcome |-> outcome, ok |-> res.ok,
                                   sent |-> res.sent,
                                   before |-> queue, after |-> res.queue])
    /\ UNCHANGED settings
    /\ UNCHANGED <<learnVars, tierVars, probe, mw>>

(* lines 99-100 and 120: the loop finds no further line and the file is    *)
(* closed; the queue file itself is as it was                              *)
ReplayEof ==
    /\ replay.pc = "read"
    /\ replay.pos > Len(queue)
    /\ replay' = [replay EXCEPT !.pc = "rewrite"]
    /\ UNCHANGED <<settings, queue, plog>>
    /\ UNCHANGED <<learnVars, tierVars, probe, mw>>

(* lines 122-125: the file is opened for writing, which empties it, and    *)
(* the entries kept are written to it                                      *)
ReplayRewrite ==
    /\ replay.pc = "rewrite"
    /\ queue' = replay.failed_entries
    /\ replay' = [replay EXCEPT !.pc = "idle", !.written = replay.failed_entries]
    /\ UNCHANGED <<settings, plog>>
    /\ UNCHANGED <<learnVars, tierVars, probe, mw>>

NextRetry ==
    \/ GenerateAndSave
    \/ ReplayStart
    \/ ReplayLine
    \/ ReplayEof
    \/ ReplayRewrite

SpecRetry == InitRetry /\ [][NextRetry]_vars

----------------------------------------------------------------------------
(* The security middleware (app/security/middleware.py) *)

MaxRequests == 3            \* requests dispatched in one behaviour
MaxRequestSize == 10485760  \* middleware.py line 32: 10 * 1024 * 1024
AiLimit == 50               \* line 101
HealthLimit == 200          \* line 103
RateLimitPerMinute == 100   \* line 33
BlockSeconds == 300         \* lines 77-78, 92

Requests ==
    { Req("/tags/extract", "", "curl/8.5", <<>>),
      Req("/tags/extract", "", "curl/8.5", <<MaxRequestSize + 1>>),
      Req("/tags/../admin", "", "curl/8.5", <<>>),
      Req("/tags/query", "q=1 union select 1", "curl/8.5", <<120>>),
      Req("/health", "", "sqlmap/1.7", <<>>) }

(* the switches a deployment can set on SecurityConfig *)
SecurityConfigs ==
    { SecurityConfig,
      [SecurityConfig EXCEPT !.security_headers = FALSE],
      [SecurityConfig EXCEPT !.input_validation = FALSE],
      [SecurityConfig EXCEPT !.rate_limit_enabled = FALSE],
      [SecurityConfig EXCEPT !.threat_detection = FALSE] }

(* _validate_input, lines 348-369: the size and the path of the request *)
ValidateInput(request) ==
    /\ ~(request.content_length # <<>> /\ request.content_length[1] > MaxRequestSize)
    /\ request.path \notin {"/tags/../admin"}     \* ".." in path or "~" in path

(* _get_endpoint_limit, lines 98-104 *)
GetEndpointLimit(endpoint) ==
    IF endpoint \in {"/tags/extract", "/tags/../admin", "/tags/query"} THEN AiLimit
    ELSE IF endpoint \in {"/health"} THEN HealthLimit
    ELSE RateLimitPerMinute

(* RateLimiter.is_allowed, lines 70-96, for the one user and address that  *)
(* send the requests: the answer, and the limiter after the call           *)
IsAllowed(s, endpoint) ==
    IF s.blocked[endpoint] = "blocked"
    THEN [allowed |-> FALSE, retry_after |-> BlockSeconds,
          requests |-> s.requests, blocked |-> s.blocked]
    ELSE IF s.requests[endpoint] >= GetEndpointLimit(endpoint)
    THEN [allowed |-> FALSE, retry_after |-> BlockSeconds,
          requests |-> s.requests,
          blocked |-> [s.blocked EXCEPT ![endpoint] = "blocked"]]
    ELSE [allowed |-> TRUE, retry_after |-> 0,
          requests |-> [s.requests EXCEPT ![endpoint] = @ + 1],
          blocked |-> [s.blocked EXCEPT ![endpoint] = "no"]]

(* ThreatDetector.analyze_request, lines 132-173: the first threat found   *)
(* in the URL, the query and the user agent, <<>> for None                 *)
AnalyzeRequest(request) ==
    IF request.query \in {"q=1 union select 1"} THEN <<"SQL_INJECTION">>
    ELSE IF request.path \in {"/tags/../admin"} THEN <<"PATH_TRAVERSAL">>
    ELSE IF request.agent \in {"sqlmap/1.7"} THEN <<"SUSPICIOUS_BOT">>
    ELSE <<>>

(* dispatch returns a response: the request leaves the middleware *)
Respond(s, status_code) ==
    [s EXCEPT !.pc = "idle",
              !.responses = Append(@, [request |-> s.request, status |-> status_code,
                                       forwarded |-> s.forwarded,
                                       headers |-> s.headers /\ status_code = 200])]

InitDispatch ==
    /\ LearnerAtRest
    /\ TierAtRest
    /\ ProbeAtRest
    /\ RetryAtRest
    /\ \E config \in SecurityConfigs, near \in BOOLEAN :
          mw = [MiddlewareIdle EXCEPT
                   !.config = config,
                   !.requests = [p \in Paths |->
                                    IF near THEN GetEndpointLimit(p) - 1 ELSE 0]]

(* dispatch, lines 260-268: a request enters the middleware *)
DispatchStart ==
    /\ mw.pc = "idle"
    /\ Len(mw.responses) < MaxRequests
    /\ \E request \in Requests :
          mw' = [mw EXCEPT !.pc = "call_next", !.request = request,
                           !.forwarded = FALSE, !.headers = FALSE]
    /\ UNCHANGED <<learnVars, tierVars, probe, retryVars>>

(* lines 270-275 and 334-346: the first statement of the try block hands   *)
(* the request to the downstream handler, through _add_security_headers or *)
(* directly; an exception of the handler is answered with 500 (lines       *)
(* 326-332)                                                                *)
CallNext ==
    /\ mw.pc = "call_next"
    /\ \E raised \in BOOLEAN :
          LET s == [mw EXCEPT !.forwarded = TRUE,
                              !.handled = Append(@, mw.request),
                              !.headers = mw.config.security_headers]
          IN  mw' = IF raised THEN Respond(s, 500) ELSE [s EXCEPT !.pc = "validate"]
    /\ UNCHANGED <<learnVars, tierVars, probe, retryVars>>

(* lines 277-282: input validation *)
InputValidation ==
    /\ mw.pc = "validate"
    /\ mw' = IF mw.config.input_validation /\ ~ValidateInput(mw.request)
             THEN Respond(mw, 400)
             ELSE [mw EXCEPT !.pc = "rate_limit"]
    /\ UNCHANGED <<learnVars, tierVars, probe, retryVars>>

(* lines 284-301: rate limiting *)
RateLimiting ==
    /\ mw.pc = "rate_limit"
    /\ LET res == IsAllowed(mw, mw.request.path)
           s == [mw EXCEPT !.requests = res.requests, !.blocked = res.blocked]
       IN  mw' = IF ~mw.config.rate_limit_enabled THEN [mw EXCEPT !.pc = "threat"]
                 ELSE IF ~res.allowed THEN Respond(s, 429)
                 ELSE [s EXCEPT !.pc = "threat"]
    /\ UNCHANGED <<learnVars, tierVars, probe, retryVars>>

(* lines 303-318 and 320-324: threat detection, then the response of the   *)
(* downstream handler is returned                                          *)
ThreatDetection ==
    /\ mw.pc = "threat"
    /\ mw' = IF mw.config.threat_detection /\ Truthy(AnalyzeRequest(mw.request))
             THEN Respond(mw, 403)
             ELSE Respond(mw, 200)
    /\ UNCHANGED <<learnVars, tierVars, probe, retryVars>>

(* RateLimiter: time goes by between two requests.  After a minute the     *)
(* sliding window of lines 83-84 is empty; after five the block of lines   *)
(* 76-80 has run out as well                                               *)
TimePasses ==
    /\ mw.pc = "idle"
    /\ \E block_over \in BOOLEAN :
          mw' = [mw EXCEPT !.requests = [p \in Paths |-> 0],
                           !.blocked = IF block_over THEN [p \in Paths |-> "no"] ELSE @]
    /\ mw' # mw
    /\ UNCHANGED <<learnVars, tierVars, probe, retryVars>>

NextDispatch ==
    \/ DispatchStart
    \/ CallNext
    \/ InputValidation
    \/ RateLimiting
    \/ ThreatDetection
    \/ TimePasses

SpecDispatch == InitDispatch /\ [][NextDispatch]_vars

----------------------------------------------------------------------------
(* Properties.  They are checked under Spec, where invocation 1 is the     *)
(* only one that runs, and read the history in log.                        *)

Range(seq) == {seq[k] : k \in 1..Len(seq)}

Run == inv[1]

(* the weight an edge list holds for `to`, 0 when it holds none *)
StoredWeight(edges, to) ==
    IF \E e \in Range(edges) : e.to = to
    THEN (CHOOSE e \in Range(edges) : e.to = to).w
    ELSE 0

Carries(doc, to, w) == \E e \in Range(doc.edges) : e.to = to /\ e.w = w

IsSortedDesc(edges) ==
    \A a, b \in 1..Len(edges) : a < b => edges[a].w >= edges[b].w

(* the window of an invocation, from its hours argument *)
InWindow(e, s) ==
    e.ts >= Now - (IF s.argHours = <<>> THEN cfg.window ELSE s.argHours[1])

(* directions to process for the in-window events of the orgs in orgSet:  *)
(* an event with n tags has n(n-1)/2 pairs (by position) of 2 directions   *)
RECURSIVE Directions(_, _, _)
Directions(events, orgSet, s) ==
    IF events = <<>> THEN 0
    ELSE LET e == Head(events)
             n == Len(e.tags)
         IN  (IF e.orgId \in orgSet /\ InWindow(e, s) THEN n * (n - 1) ELSE 0)
             + Directions(Tail(events), orgSet, s)

(* C1: every edge update writes a weight in [0, wMax], whatever the prior  *)
(* stored weight (also one seeded outside the range) and the outcome.      *)
C1_WeightInRange ==
    \A k \in 1..Len(log) :
        /\ log[k].new >= 0 /\ log[k].new <= WMax
        /\ \A e \in Range(log[k].after) :
               e.to = log[k].dst => e.w >= 0 /\ e.w <= WMax

C1_Witness ==
    /\ \E k \in 1..Len(log) : log[k].prior > WMax /\ Carries(tagEdges[log[k].org][log[k].src], log[k].dst, WMax)
    /\ \E k \in 1..Len(log) : log[k].prior < 0

C3_WrittenDocsBounded ==
    \A k \in 1..Len(log) :
        LET doc == tagEdges[log[k].org][log[k].src] IN
        /\ doc.present
        /\ Len(doc.edges) <= cfg.m
        /\ IsSortedDesc(doc.edges)

C3_Witness ==
    \E k \in 1..Len(log) :
        /\ Len(log[k].before.edges) > cfg.m
        /\ Len(tagEdges[log[k].org][log[k].src].edges) = cfg.m

(* the last write ends the processing of a pair (tag1, tag2) of distinct   *)
(* tags                                                                    *)
PairDone ==
    /\ Len(log) >= 2
    /\ log[Len(log)].dir = 2
    /\ log[Len(log)].pair[1] # log[Len(log)].pair[2]

(* C4 as stated: once the pair [A, B] is processed, A's document carries   *)
(* the updated weight for B and B's document the updated weight for A.     *)
C4_BothDirectionsStored ==
    PairDone =>
        LET ab == log[Len(log) - 1]
            ba == log[Len(log)]
        IN  /\ ab.dir = 1 /\ ab.pair = ba.pair /\ ab.org = ba.org
            /\ ab.src = ba.pair[1] /\ ab.dst = ba.pair[2]
            /\ ba.src = ba.pair[2] /\ ba.dst = ba.pair[1]
            /\ Carries(tagEdges[ab.org][ab.src], ab.dst, ab.new)
            /\ Carries(tagEdges[ba.org][ba.src], ba.dst, ba.new)

(* a direction's document carries the updated edge, or the edge did not    *)
(* make the maxEdgesPerTag heaviest neighbours and was dropped             *)
StoredOrPruned(e) ==
    \/ Carries(tagEdges[e.org][e.src], e.dst, e.new)
    \/ /\ Len(e.map) > cfg.m
       /\ ~\E x \in Range(tagEdges[e.org][e.src].edges) : x.to = e.dst
       /\ Cardinality({x \in Range(e.map) : x.to # e.dst /\ x.w >= e.new}) >= cfg.m

(* C4 amended: both directions are updated, each from its own stored       *)
(* prior weight; each document carries its updated edge unless top-M       *)
(* truncation dropped it.                                                  *)
C4_BothDirectionsUpdated ==
    PairDone =>
        LET ab == log[Len(log) - 1]
            ba == log[Len(log)]
        IN  /\ ab.dir = 1 /\ ab.pair = ba.pair /\ ab.org = ba.org
            /\ ab.src = ba.pair[1] /\ ab.dst = ba.pair[2]
            /\ ba.src = ba.pair[2] /\ ba.dst = ba.pair[1]
            /\ ab.prior = StoredWeight(ab.before.edges, ab.dst)
            /\ ba.prior = StoredWeight(ba.before.edges, ba.dst)
            /\ StoredOrPruned(ab)
            /\ StoredOrPruned(ba)

C4_Witness ==
    /\ PairDone
    /\ log[Len(log) - 1].prior # log[Len(log)].prior
    /\ log[Len(log) - 1].new # log[Len(log)].new
    /\ Carries(tagEdges[log[Len(log)].org][log[Len(log)].dst], log[Len(log)].src,
               log[Len(log) - 1].new)
    /\ Carries(tagEdges[log[Len(log)].org][log[Len(log)].src], log[Len(log)].dst,
               log[Len(log)].new)

(* the document of (org, src) as stored just before write k: what the last *)
(* earlier write to it left, the seeded document when there is none        *)
StoredBefore(k) ==
    LET earlier == {j \in 1..(k - 1) : log[j].org = log[k].org /\ log[j].src = log[k].src}
    IN  IF earlier = {} THEN seed[log[k].org][log[k].src]
        ELSE Doc(log[CHOOSE j \in earlier : \A h \in earlier : h <= j].after)

(* C5: newWeight = clip((1-eta)*w + eta*clip(w + reward, 0, wMax), 0, wMax) *)
(* with reward +r or -d and w the weight stored when the direction is      *)
(* processed (0 if absent, earlier writes of the pass included); 0.5 gives *)
(* 0.505 accepted and 0.498 rejected under eta=0.1, r=0.05, d=0.02.        *)
C5_EmaFormula ==
    \A k \in 1..Len(log) :
        LET w == log[k].prior
            reward == IF log[k].event.accepted THEN cfg.r ELSE 0 - cfg.d
            target == Max(0, Min(w + reward, WMax))
            exact100 == (100 - cfg.eta) * w + cfg.eta * target
        IN  /\ log[k].before = StoredBefore(k)
            /\ w = StoredWeight(log[k].before.edges, log[k].dst)
            /\ \E y \in (exact100 \div 100)..(exact100 \div 100 + 1) :
                   /\ 2 * (100 * y - exact100) <= 100
                   /\ 2 * (exact100 - 100 * y) <= 100
                   /\ log[k].new = Max(0, Min(y, WMax))
            /\ (cfg.eta = 10 /\ cfg.r = 500 /\ cfg.d = 200 /\ w = 5000) =>
                   log[k].new = IF log[k].event.accepted THEN 5050 ELSE 4980

C5_Witness ==
    /\ cfg.eta = 10
    /\ \E k \in 1..Len(log) : log[k].prior = 5000 /\ log[k].new = 5050
    /\ \E k \in 1..Len(log) : log[k].prior = 5050 /\ log[k].before # seed[log[k].org][log[k].src]

(* C6: a neighbour map of more than maxEdgesPerTag entries is written as   *)
(* exactly maxEdgesPerTag edges, and no dropped neighbour weighs more than *)
(* a retained one; [0.8,0.6,0.4,0.2] with maxEdgesPerTag=3 loses 0.2.      *)
C6_TopMKept ==
    \A k \in 1..Len(log) :
        LET kept == Range(log[k].after)
            dropped == Range(log[k].map) \ kept
        IN  /\ kept \subseteq Range(log[k].map)
            /\ Len(log[k].map) > cfg.m =>
                   /\ Len(log[k].after) = cfg.m
                   /\ Cardinality(kept) = cfg.m
                   /\ \A x \in dropped, y \in kept : x.w <= y.w
            /\ (cfg.m = 3 /\ {x.w : x \in Range(log[k].before.edges)} = {8000, 6000, 4000, 2000}
                   /\ log[k].dst = "fastapi") =>
                   {x.to : x \in kept} = {"fastapi", "ml", "ds"}

C6_Witness ==
    \E k \in 1..Len(log) :
        /\ Len(log[k].map) = 4 /\ cfg.m = 3
        /\ \E x \in Range(log[k].map) : x.w = 2000 /\ x \notin Range(log[k].after)

(* C7 (as stated): run_edge_learning_for_org on an org without in-window   *)
(* event returns updated = 0 without error and leaves every tag-edge       *)
(* document unchanged.  The org id may be any string, the empty one too.   *)
C7_NoEventsNoChange ==
    (/\ Run.argOrg # <<>>
     /\ ~\E e \in Range(packEvents) : e.orgId = Run.argOrg[1] /\ InWindow(e, Run))
    => /\ Run.pc # "raised"
       /\ tagEdges = seed
       /\ Run.pc = "done" => Run.updated = 0

(* C8: an event with fewer than two tags produces no pair update: no       *)
(* document write stems from it and it adds nothing to updated.            *)
C8_FewTagsNoUpdate ==
    /\ \A k \in 1..Len(log) : Len(log[k].event.tags) >= 2
    /\ (Run.pc = "done" /\ Run.failed = {}) =>
           Run.updated = Cardinality({k \in 1..Len(log) : Len(log[k].event.tags) >= 2})

C8_Witness ==
    /\ Run.pc = "done" /\ Run.failed = {}
    /\ Len(log) = 2
    /\ Run.updated = 2
    /\ \E e \in Range(packEvents) :
           e.orgId \in Range(Run.visited) /\ InWindow(e, Run) /\ Len(e.tags) = 1

C10_OrgIsolation ==
    (~Truthy(Run.argOrg) /\ Run.pc = "done") =>
        /\ Run.visited = Run.orgs
        /\ Range(Run.orgs) = {e.orgId : e \in Range(packEvents)}
        /\ Run.updated = Directions(packEvents, Range(Run.orgs) \ Run.failed, Run)

C10_Witness ==
    /\ ~Truthy(Run.argOrg) /\ Run.pc = "done"
    /\ Len(Run.orgs) = 2
    /\ Run.failed = {Run.orgs[1]}
    /\ \E k \in 1..Len(log) : log[k].org = Run.orgs[1]
    /\ Run.updated = 2

----------------------------------------------------------------------------
(* Two invocations on the same documents (SpecRace) *)

(* one direction of one pair, applied to the store of an org with nothing  *)
(* in between the read and the write                                       *)
SerialDirection(c, store, src, dst, accepted) ==
    LET current_edges == GetCurrentEdges(store[src])
        new_weight == UpdateEdgeWeight(c, GetWeight(current_edges, dst, 0), accepted)
    IN  [store EXCEPT ![src] = Doc(UpsertEdges(c, SetWeight(current_edges, dst, new_weight)))]

RECURSIVE SerialPairs(_, _, _, _)
SerialPairs(c, store, pairs, accepted) ==
    IF pairs = <<>> THEN store
    ELSE LET p == Head(pairs)
             s1 == SerialDirection(c, store, p[1], p[2], accepted)
             s2 == SerialDirection(c, s1, p[2], p[1], accepted)
         IN  SerialPairs(c, s2, Tail(pairs), accepted)

RECURSIVE SerialEvents(_, _, _)
SerialEvents(c, store, events) ==
    IF events = <<>> THEN store
    ELSE SerialEvents(c, SerialPairs(c, store, EventPairs(Head(events).tags),
                                     Head(events).accepted),
                      Tail(events))

(* the store of org after one whole invocation, then another whole one:    *)
(* both read the same events, so the two serial orders give the same store *)
SerialResult(org) ==
    LET events == RecentPackEvents(cfg, packEvents, org, <<>>)
    IN  SerialEvents(cfg, SerialEvents(cfg, seed[org], events), events)

(* write k is stale: the document was rewritten between its read and it *)
Stale(k) == log[k].read # log[k].before

(* C11: two invocations that update the same (org, tag) document are not   *)
(* serialised.  Every write is computed from the document as the           *)
(* invocation read it: the prior weight is the one read, and every other   *)
(* neighbour is written back with the weight read, so a write the other    *)
(* invocation made in between is overwritten.  An interleaving therefore   *)
(* ends with a store that neither serial order produces (the witness).     *)
C11_WriteFromStaleRead ==
    \A k \in 1..Len(log) :
        LET e == log[k]
            readMap == GetCurrentEdges(e.read)
        IN  /\ e.prior = GetWeight(readMap, e.dst, 0)
            /\ \A x \in Range(e.after) :
                   x.to # e.dst => HasKey(readMap, x.to) /\ x.w = GetWeight(readMap, x.to, 0)
            /\ Stale(k) =>
                   \E j \in 1..(k - 1) :
                       /\ log[j].inv # e.inv
                       /\ log[j].org = e.org /\ log[j].src = e.src
                       /\ Doc(log[j].after) = e.before

C11_Witness ==
    /\ inv[1].pc = "done" /\ inv[2].pc = "done"
    /\ \E k \in 1..Len(log) : Stale(k)
    /\ tagEdges["o1"] # SerialResult("o1")
    /\ tagEdges["o1"]["fastapi"] = Doc(<<E("python", 5050)>>)
    /\ SerialResult("o1")["fastapi"] = Doc(<<E("python", 5100)>>)

----------------------------------------------------------------------------
(* The tiering sweep (SpecTier) *)

(* a run of rebalance_all_tags has ended *)
SweepOver == sweep.pc = "idle" /\ sweep.n >= 1

(* the tier that the current metrics of a tag call for *)
TierDue(m, tag) ==
    DetermineTier(ComputeHotnessScore(UseCount(m, tag), MinDate(m, tag)[1],
                                      MaxDate(m, tag)[1], <<>>))

(* the tier stored on record k, 2 when none is stored *)
TierOf(m, k) == IF m[k].tier = <<>> THEN 2 ELSE m[k].tier[1]

(* C12 (as stated): after a sweep that ran to its end, every record of     *)
(* every tag with dates carries the tier its current metrics call for,     *)
(* whatever tier was stored before.                                        *)
C12_SweepHealsTiers ==
    (SweepOver /\ sweep.failures = 0) =>
        \A tag \in TagsOf(mem) :
            MinDate(mem, tag) # <<>> =>
                \A k \in 1..Len(mem) :
                    HasTag(mem[k], tag) => mem[k].tier = <<TierDue(mem, tag)>>

(* C13 (as stated): a sweep issues a tier update for a tag exactly when    *)
(* the new tier differs from the tier stored for the tag (2 when none is   *)
(* stored), and a second sweep right after a complete one issues none.     *)
C13_UpdateIffTierDiffers ==
    \A n \in 1..Len(tlog) :
        LET e == tlog[n] IN
        ~e.skipped =>
            /\ e.issued <=> \E k \in 1..Len(e.before) :
                               HasTag(e.before[k], e.tag) /\ TierOf(e.before, k) # e.new_tier
            /\ e.sweep >= 2 => ~e.issued

(* C14: determine_tier maps every score to one tier of {1,2,3} by the      *)
(* band the score lies in: 1 from 5.0 up, 2 from 1.0 up to but not         *)
(* including 5.0, 3 below 1.0; so 5.0 gives 1, 4.999 gives 2, 1.0 gives 2  *)
(* and 0.999 gives 3.                                                      *)
C14_DetermineTierBands ==
    probe.applied =>
        /\ probe.out \in {1, 2, 3}
        /\ probe.out = 1 <=> probe.arg >= 5000
        /\ probe.out = 2 <=> (probe.arg >= 1000 /\ probe.arg < 5000)
        /\ probe.out = 3 <=> probe.arg < 1000
        /\ probe.arg = 5000 => probe.out = 1
        /\ probe.arg = 4999 => probe.out = 2
        /\ probe.arg = 1000 => probe.out = 2
        /\ probe.arg = 999 => probe.out = 3

C14_Witness == probe.applied /\ probe.arg = 5000 /\ probe.out = 1

(* C15: a tier update issued for a tag leaves its tier on every record     *)
(* that carries the tag and leaves every other record as it was.           *)
C15_UpdateFansOut ==
    \A n \in 1..Len(tlog) :
        LET e == tlog[n] IN
        (e.issued /\ e.success) =>
            /\ Len(e.after) = Len(e.before)
            /\ \A k \in 1..Len(e.before) :
                   IF HasTag(e.before[k], e.tag)
                   THEN e.after[k].tier = <<e.new_tier>>
                   ELSE e.after[k] = e.before[k]

C15_Witness ==
    \E n \in 1..Len(tlog) :
        LET e == tlog[n] IN
        /\ e.issued /\ e.success
        /\ \E j, k \in 1..Len(e.before) :
              /\ j < k /\ HasTag(e.before[j], e.tag) /\ HasTag(e.before[k], e.tag)
              /\ e.before[k].tier # <<e.new_tier>>
        /\ \E k \in 1..Len(e.before) :
              ~HasTag(e.before[k], e.tag) /\ e.before[k].tier # <<e.new_tier>>

(* the tiers stored on the records, in collection order *)
Tiers(m) == [k \in 1..Len(m) |-> m[k].tier]

(* C16 (as stated): on the stored records, the bulk updates of two         *)
(* different tags leave the same tiers in either order.                    *)
C16_TierUpdatesCommute ==
    \A x, y \in TagsOf(mem) : \A t, u \in {1, 2, 3} :
        x # y =>
            Tiers(UpdateTagTier(UpdateTagTier(mem, x, t), y, u))
            = Tiers(UpdateTagTier(UpdateTagTier(mem, y, u), x, t))

----------------------------------------------------------------------------
(* Scope, window, pairs and errors of one learning invocation (Spec) *)

(* C17 (as stated): with an org id passed to run, that org alone is        *)
(* processed: no other org's events are fetched and no other org's         *)
(* document is written; with none passed, the orgs processed are exactly   *)
(* those that have a pack event.                                           *)
C17_OrgScope ==
    /\ Run.argOrg # <<>> =>
           /\ \A k \in 1..Len(Run.visited) : Run.visited[k] = Run.argOrg[1]
           /\ \A k \in 1..Len(log) : log[k].org = Run.argOrg[1]
           /\ \A o \in Orgs : o # Run.argOrg[1] => tagEdges[o] = seed[o]
    /\ (Run.argOrg = <<>> /\ Run.pc = "done") =>
           Range(Run.visited) = DistinctOrgs(packEvents)

(* the writes made for org o *)
WritesFor(o) == {k \in 1..Len(log) : log[k].org = o}

(* C18: a pass processes exactly the events of the org that lie in the     *)
(* window [now - hours, now], hours being the configured window when the   *)
(* call gives none: every write stems from such an event, and once an org  *)
(* is through, each of its in-window events has had all its directions     *)
(* written; an older event causes no write.                                *)
C18_WindowExact ==
    /\ \A k \in 1..Len(log) :
           /\ log[k].event.orgId = log[k].org
           /\ log[k].event.ts >= Now - (IF Run.argHours = <<>> THEN cfg.window
                                        ELSE Run.argHours[1])
    /\ Run.pc = "done" =>
           \A o \in Range(Run.visited) \ Run.failed :
               /\ Cardinality(WritesFor(o)) = Directions(packEvents, {o}, Run)
               /\ \A n \in 1..Len(packEvents) :
                      (/\ packEvents[n].orgId = o
                       /\ InWindow(packEvents[n], Run)
                       /\ Len(packEvents[n].tags) >= 2)
                      => \E k \in WritesFor(o) : log[k].event = packEvents[n]

C18_Witness ==
    /\ Run.pc = "done" /\ Run.failed = {}
    /\ Run.argHours = <<12>>
    /\ \E e \in Range(packEvents) :
          e.orgId = "o1" /\ e.ts = Now - 18 /\ Len(e.tags) >= 2
    /\ \E k \in 1..Len(log) : log[k].event.ts = Now

(* ends of a pair, as a set *)
Ends(p) == {p[1], p[2]}

(* C19 (as stated): the pairs generated for an event with two tags or more *)
(* are all unordered pairs of two different tags of the event, each        *)
(* generated once.                                                         *)
C19_PairsDistinctOnce ==
    Run.pc \in {"read", "write"} =>
        LET tags == Run.events[Run.ei].tags
            pairs == Run.pairs
        IN  /\ \A a \in 1..Len(pairs) : pairs[a][1] # pairs[a][2]
            /\ \A a, b \in 1..Len(pairs) : a < b => Ends(pairs[a]) # Ends(pairs[b])
            /\ \A x, y \in Range(tags) :
                   x # y => \E a \in 1..Len(pairs) : Ends(pairs[a]) = {x, y}

(* C20 (as stated): a storage error after the start of an invocation never *)
(* reaches the caller; run returns its summary.                            *)
C20_NoErrorPropagates == Run.pc # "raised"

(* C21 (as stated), learning pass: a storage error during one edge update  *)
(* costs that update only; the other directions of the org's in-window     *)
(* events are still written, so an org whose event fetch went through ends *)
(* the pass with all its directions written but one per error.             *)
C21_ErrorCostsOneUpdate ==
    Run.pc = "done" =>
        \A o \in Run.failed :
            WritesFor(o) # {} =>
                Cardinality(WritesFor(o)) + failures >= Directions(packEvents, {o}, Run)

----------------------------------------------------------------------------
(* A learning pass run again over the same events (SpecRace) *)

(* the writes of the two passes do not interleave and none is stale: one   *)
(* pass ran after the other                                                *)
OneAfterTheOther ==
    /\ \A k \in 1..Len(log) : ~Stale(k)
    /\ \A a, b, c \in 1..Len(log) :
           (a < b /\ b < c /\ log[a].inv = log[c].inv) => log[b].inv = log[a].inv

(* write k of the second pass applies again the direction that write j of  *)
(* the first pass applied                                                  *)
Replays(j, k) ==
    /\ j < k
    /\ log[j].inv # log[k].inv
    /\ log[j].org = log[k].org /\ log[j].event = log[k].event
    /\ log[j].src = log[k].src /\ log[j].dst = log[k].dst

(* the last write to the document of write k before it *)
LastWriteBefore(k) ==
    CHOOSE h \in 1..(k - 1) :
        /\ log[h].org = log[k].org /\ log[h].src = log[k].src
        /\ \A g \in (h + 1)..(k - 1) :
               ~(log[g].org = log[k].org /\ log[g].src = log[k].src)

----------------------------------------------------------------------------
(* Pages and records of a sweep (SpecTier) *)

(* the records of the current run that were handled, as tlog entries *)
Handled == {n \in 1..Len(tlog) : tlog[n].sweep = sweep.n}

(* a run that passed the connection check has ended *)
RanToEnd == SweepOver /\ sweep.connected

(* C23 (as stated): with a tag set that does not change and no failure, a  *)
(* run asks for the pages 0, 1, 2, ... in order, every page but the last   *)
(* holding at most the page size, stops at the first empty page, and       *)
(* handles every tag exactly once.                                         *)
C23_EveryTagOnce ==
    (RanToEnd /\ sweep.failures = 0) =>
        LET f == sweep.fetched IN
        /\ f # <<>>
        /\ \A k \in 1..Len(f) :
               /\ f[k].page = k - 1
               /\ Len(f[k].names) <= PageLimit
               /\ (f[k].names = <<>>) <=> (k = Len(f))
        /\ \A tag \in TagsOf(mem) :
               Cardinality({n \in Handled : tlog[n].tag = tag}) = 1

(* the record of tlog entry e could not be handled *)
Unhandled(e) == e.skipped \/ e.raised \/ (e.issued /\ ~e.success)

(* C24: a record that cannot be handled (a date missing, an exception      *)
(* while scoring, an update that fails) is skipped: no tier changes for    *)
(* it, none is issued when the dates are missing or the scoring raised,    *)
(* and every record fetched is handled all the same: the records of the    *)
(* pages before the current one, those of the current page up to the       *)
(* current position, and after a run all records of all pages up to an     *)
(* empty page.                                                             *)
C24_BadRecordSkipped ==
    /\ \A n \in 1..Len(tlog) :
           Unhandled(tlog[n]) =>
               /\ tlog[n].after = tlog[n].before
               /\ (tlog[n].skipped \/ tlog[n].raised) => ~tlog[n].issued
    /\ \A k \in 1..Len(sweep.fetched) :
           LET f == sweep.fetched[k] IN
           \A p \in 1..Len(f.names) :
               (f.page < sweep.page \/ p < sweep.ti \/ sweep.pc = "idle") =>
                   \E n \in Handled :
                       tlog[n].page = f.page /\ tlog[n].at = p /\ tlog[n].tag = f.names[p]
    /\ (RanToEnd /\ sweep.failures = 0) =>
           sweep.fetched[Len(sweep.fetched)].names = <<>>

(* a run in which the first record of a page raised, the next record of    *)
(* the page had its tier updated and so had a record of the next page      *)
C24_Witness ==
    /\ RanToEnd
    /\ \E a, b, c \in Handled :
           /\ tlog[a].raised /\ tlog[a].page = 0 /\ tlog[a].at = 1
           /\ tlog[b].success /\ tlog[b].page = 0 /\ tlog[b].at = 2
           /\ tlog[c].success /\ tlog[c].page = 1

----------------------------------------------------------------------------
(* Store unreachable when a job starts (SpecJobs) *)

(* the first storage call of invocation s found the store unreachable: the *)
(* org scan of a pass over all orgs raised, or the event fetch of the one  *)
(* org of a scoped pass did                                                *)
StartedUnreachable(s) ==
    \/ s.pc = "raised"
    \/ Truthy(s.argOrg) /\ s.failed # {} /\ s.events = <<>>

(* C25: an invocation of the learning pass or a run of the tiering job     *)
(* that finds the store unreachable when it starts does nothing of its     *)
(* work: the invocation writes no edge document, the run fetches no page   *)
(* and issues no tier update.                                              *)
C25_UnreachableNoPartialRun ==
    /\ \A i \in Invs :
           StartedUnreachable(inv[i]) => \A k \in 1..Len(log) : log[k].inv # i
    /\ (sweep.n >= 1 /\ ~sweep.connected) =>
           /\ sweep.pc = "idle"
           /\ sweep.fetched = <<>>
           /\ Handled = {}

(* both jobs found the store unreachable, the tiering job on its second    *)
(* run after a first one that updated a tier                               *)
C25_Witness ==
    /\ StartedUnreachable(Run)
    /\ sweep.n = 2 /\ ~sweep.connected
    /\ \E n \in 1..Len(tlog) : tlog[n].success

----------------------------------------------------------------------------
(* The hotness score (SpecHotness) *)

(* compute_hotness_score returned a score for the metrics of the probe *)
Scored == probe.fn = "compute_hotness_score" /\ probe.applied /\ ~probe.out.raised

C27_BoostWithinSevenDays ==
    Scored =>
        LET lp == probe.arg.last_promoted_at IN
        /\ probe.out.boost \in {2, 3}
        /\ probe.out.boost = 3 <=>
               (lp # <<>> /\ lp[1] <= Today /\ Today - lp[1] < 7)

----------------------------------------------------------------------------
(* The retry queue (SpecRetry) *)

(* C28 (as stated): with the tagging service enabled, every delta whose    *)
(* post fails (post_delta returns False) is appended to the retry queue,   *)
(* with retry count 0.                                                     *)
C28_FailedPostQueued ==
    \A k \in 1..Len(plog) :
        LET e == plog[k] IN
        (e.sent /\ ~e.ok) =>
            /\ Len(e.after) = Len(e.before) + 1
            /\ SubSeq(e.after, 1, Len(e.before)) = e.before
            /\ e.after[Len(e.after)].delta = e.delta
            /\ e.after[Len(e.after)].retry_count = 0

(* the entries of the queue as it was when the replay began that the       *)
(* replay has to keep: those whose post failed, with the retry count       *)
(* incremented, unless it reaches the maximum                              *)
RECURSIVE KeptEntries(_, _, _)
KeptEntries(start, lines, k) ==
    IF k > Len(start) THEN <<>>
    ELSE LET rest == KeptEntries(start, lines, k + 1)
             kept == [start[k] EXCEPT !.retry_count = @ + 1]
         IN  IF ~lines[k].ok /\ kept.retry_count < MaxRetries
             THEN <<kept>> \o rest
             ELSE rest

(* a run of replay_failed_deltas has ended and no request posted a delta   *)
(* while it ran                                                            *)
ReplayOver == replay.pc = "idle" /\ replay.n >= 1 /\ ~replay.disturbed

(* C30 (as stated): the queue file a replay leaves holds exactly the       *)
(* entries of the queue whose replay failed and whose incremented retry    *)
(* count is below 5, and no entry of the queue ever has a retry count of 5 *)
(* or more.                                                                *)
C30_QueueAfterReplay ==
    /\ \A k \in 1..Len(queue) : queue[k].retry_count < MaxRetries
    /\ ReplayOver => replay.written = KeptEntries(replay.start, replay.lines, 1)

----------------------------------------------------------------------------
(* What one direction writes (SpecFrame) *)

(* the neighbours of the document and the one being updated by write k *)
KeysOf(k) == {x.to : x \in Range(log[k].before.edges)} \cup {log[k].dst}

(* the weight write k has for neighbour t: the new one for the neighbour   *)
(* being updated, the stored one for the others                            *)
WeightIn(k, t) ==
    IF t = log[k].dst THEN log[k].new ELSE StoredWeight(log[k].before.edges, t)

(* write k is a write to the document of (o, t) *)
WritesTo(k, o, t) == log[k].org = o /\ log[k].src = t

----------------------------------------------------------------------------
(* Shape of the documents under two invocations at once (SpecRace) *)

(* the edge list is one a write may leave: at most maxEdgesPerTag edges,   *)
(* sorted by weight descending, one edge per destination tag               *)
WellShaped(edges) ==
    /\ Len(edges) <= cfg.m
    /\ IsSortedDesc(edges)
    /\ \A a, b \in 1..Len(edges) : a # b => edges[a].to # edges[b].to

(* C31: whatever the interleaving of two invocations on one org, every     *)
(* document is well shaped after each write to it, and every weight        *)
(* written lies in [0, wMax].                                              *)
C31_ShapeUnderRace ==
    \A k \in 1..Len(log) :
        /\ WellShaped(log[k].after)
        /\ log[k].new >= 0 /\ log[k].new <= WMax
        /\ tagEdges[log[k].org][log[k].src].present
        /\ WellShaped(tagEdges[log[k].org][log[k].src].edges)

(* a write computed from a document the other invocation had rewritten in  *)
(* between, to a node that is full: the list written was truncated         *)
C31_Witness ==
    \E k \in 1..Len(log) :
        /\ Stale(k)
        /\ Len(log[k].map) > cfg.m
        /\ Len(log[k].after) = cfg.m

----------------------------------------------------------------------------
(* The summary and the truncated edges (SpecFrame) *)

(* write k dropped at least one neighbour of the map it was given *)
Truncated(k) == Len(log[k].map) > Len(log[k].after)

(* C34: the pruned field of the summary is 0 after every pass, whatever    *)
(* the pass truncated away.                                                *)
C34_PrunedAlwaysZero == Run.pc = "done" => Run.pruned = 0

(* a pass that ended after a write had dropped a neighbour *)
C34_Witness ==
    /\ Run.pc = "done"
    /\ \E k \in 1..Len(log) : Truncated(k)
    /\ Run.pruned = 0

----------------------------------------------------------------------------
(* An org whose processing was aborted by an exception (Spec) *)

(* write k is the last one made to its document *)
LastToItsDocument(k) ==
    \A j \in (k + 1)..Len(log) : ~WritesTo(j, log[k].org, log[k].src)

(* C32: when an exception aborts an org in mid-pass, the writes already    *)
(* made for that org stay in the store, and the updated count returned     *)
(* includes none of them: it counts the writes of the other orgs only.     *)
C32_AbortedOrgKeepsWrites ==
    Run.pc = "done" =>
        /\ \A k \in 1..Len(log) :
               (log[k].org \in Run.failed /\ LastToItsDocument(k)) =>
                   tagEdges[log[k].org][log[k].src] = Doc(log[k].after)
        /\ Run.updated = Cardinality({k \in 1..Len(log) : log[k].org \notin Run.failed})

(* a pass that ended with writes made for an aborted org and a count that  *)
(* holds another org's writes                                               *)
C32_Witness ==
    /\ Run.pc = "done"
    /\ \E k \in 1..Len(log) : log[k].org \in Run.failed
    /\ Run.updated > 0

----------------------------------------------------------------------------
(* A new neighbour too light for a full node (SpecFrame) *)

NeighboursOf(edges) == {x.to : x \in Range(edges)}

(* write k found its source tag with maxEdgesPerTag neighbours, the        *)
(* destination not among them and all of them heavier than the new weight  *)
FullAndHeavier(k) ==
    /\ log[k].before.present
    /\ Len(log[k].before.edges) = cfg.m
    /\ log[k].dst \notin NeighboursOf(log[k].before.edges)
    /\ \A x \in Range(log[k].before.edges) : x.w > log[k].new

(* C33: such a write drops the new neighbour, the stored neighbour set of  *)
(* the source tag is the one it had before, and the step is counted all    *)
(* the same: a pass without an aborted org returns the number of writes.   *)
C33_LightNeighbourDropped ==
    /\ \A k \in 1..Len(log) :
           FullAndHeavier(k) =>
               /\ log[k].dst \notin NeighboursOf(log[k].after)
               /\ NeighboursOf(log[k].after) = NeighboursOf(log[k].before.edges)
    /\ (Run.pc = "done" /\ Run.failed = {}) => Run.updated = Len(log)

(* a finished pass that counted a write whose new neighbour was dropped *)
C33_Witness ==
    /\ Run.pc = "done"
    /\ Run.failed = {}
    /\ Run.updated = Len(log)
    /\ \E k \in 1..Len(log) : FullAndHeavier(k)

----------------------------------------------------------------------------
(* A page of the sweep that could not be fetched (SpecTier) *)

(* fetch j of the running sweep failed or brought nothing *)
NoData(j) == sweep.fetched[j].failed \/ sweep.fetched[j].names = <<>>

(* C35: a failed page fetch is handled like the end of the data: the sweep *)
(* stops at the first page whose fetch fails or returns nothing, fetches   *)
(* no later page, issues no tier update for that page or a later one, and  *)
(* ends in the ordinary way.                                               *)
C35_FailedFetchEndsSweep ==
    \A j \in 1..Len(sweep.fetched) :
        /\ sweep.fetched[j].page = j - 1
        /\ NoData(j) =>
               /\ j = Len(sweep.fetched)
               /\ sweep.pc = "idle"
               /\ \A n \in Handled : tlog[n].page < sweep.fetched[j].page

(* the fetch of the second page failed while a tag was still waiting on it *)
C35_Witness ==
    /\ Len(sweep.fetched) = 2
    /\ sweep.fetched[2].failed
    /\ Handled # {}
    /\ \E order \in SortedTags(mem) : Len(order) > PageLimit

----------------------------------------------------------------------------
(* The length of one replay run (SpecRetry) *)

(* C36: one call of replay_failed_deltas attempts the entries that were in *)
(* the queue file at its start, each once and in order, and nothing else:  *)
(* with no request appending to the file meanwhile, the run never makes    *)
(* more attempts than the file had entries, so it ends after that many.    *)
C36_ReplayBoundedByStart ==
    (replay.n > 0 /\ ~replay.disturbed) =>
        /\ Len(replay.lines) <= Len(replay.start)
        /\ \A j \in 1..Len(replay.lines) :
               j <= Len(replay.start) => replay.lines[j].entry = replay.start[j]

----------------------------------------------------------------------------
(* A request that queues its delta while a replay runs (SpecRetry) *)

InQueue(delta) == \E k \in 1..Len(queue) : queue[k].delta = delta

(* some post of the delta was answered by a 2xx response *)
Delivered(delta) ==
    \E n \in 1..Len(plog) : plog[n].delta = delta /\ plog[n].sent /\ plog[n].ok

(* C37: a delta that a request appended to the queue file while the replay *)
(* was running is in the file, or has been delivered, once the replay has  *)
(* finished.                                                               *)
C37_ArrivalNotLost ==
    (replay.pc = "idle" /\ replay.n > 0) =>
        \A delta \in replay.arrived : InQueue(delta) \/ Delivered(delta)

----------------------------------------------------------------------------
(* Requests the security middleware rejects (SpecDispatch) *)

Rejections == {400, 429, 403}

(* C38: a request that the middleware rejects with 400, 429 or 403 has not *)
(* been handed to the downstream handler: call_next was not invoked for it. *)
C38_RejectedNotForwarded ==
    \A k \in 1..Len(mw.responses) :
        mw.responses[k].status \in Rejections => ~mw.responses[k].forwarded
====
